---- MODULE Spec2Model ----
(***************************************************************************)
(* A model of src/src/lib/staticData.ts: the bounded fetch cache, the      *)
(* index memo, the search-scope cache and the async operations that use    *)
(* them (getIndex, getVideos, getVideo, search, loadStudyHome,             *)
(* loadVideoPage).                                                         *)
(*                                                                         *)
(* Every async call is a task.  A task runs its synchronous prefix in one  *)
(* step, is suspended at each await, and is resumed in a later step; steps *)
(* of different tasks interleave (single-threaded cooperative scheduling). *)
(* JSON strings that the code inspects character by character (query and   *)
(* titles) are sequences of one-character strings; paths and ids are       *)
(* strings built with \o exactly as the template literals build them.      *)
(***************************************************************************)
EXTENDS Integers, Sequences, FiniteSets, TLC

VARIABLES
  cache,        \* line 76: Map<string, unknown>, as the sequence of its entries in insertion order
  indexCache,   \* line 115: SiteIndex | null
  searchCache,  \* line 172: Map<string, SearchEntry[]>, as a function on its keys
  tasks,        \* the async calls in flight: their position and locals
  ev,           \* the call that returned in the last step, if one did
  hist          \* history: the first Site Index returned, the fetches of /index.json and the
                \* assignments of the memo counted, whether a fetch of /index.json failed, and
                \* what the last load of each path still in the cache returned

vars == <<cache, indexCache, searchCache, tasks, ev, hist>>

-----------------------------------------------------------------------------
(* Bounds of the model *)

\* capacity of the bounded cache; 100 at staticData.ts:75, scaled down
MAX_CACHE_SIZE == 2

\* number of calls of the public API that can be in flight at once
MaxRunning == 2

\* the history counters stop counting here
MaxCount == 2

\* a call of a composite loader runs up to two sub-calls besides itself
Tasks == 1..(3 * MaxRunning)

-----------------------------------------------------------------------------
(* JavaScript values *)

None == [kind |-> "none"]          \* nothing recorded (model-level)
JNull == [kind |-> "null"]         \* null
NULL == "<null>"                   \* null where the code expects a string
UNDEF == "<undefined>"             \* a missing optional string

\* a test for undefined only: null passes
TruthyNotUndefined(s) == s # UNDEF

\* truthiness of a string | null | undefined (if (playlistId), if (firstKey), nav.prev ? ..)
Truthy(s) == s \notin {NULL, UNDEF, ""}

\* truthiness of an object | null (if (indexCache), if (!video), v ? .. : null)
TruthyObj(v) == v # JNull

Ok(v) == [ok |-> TRUE, val |-> v]
Err(e) == [ok |-> FALSE, err |-> e]

Min(a, b) == IF a <= b THEN a ELSE b

-----------------------------------------------------------------------------
(* Strings that the code reads character by character *)

IsSpace(ch) == ch \in {" ", "\t", "\n"}

RECURSIVE TrimStart(_)
TrimStart(s) == IF s # <<>> /\ IsSpace(Head(s)) THEN TrimStart(Tail(s)) ELSE s

RECURSIVE TrimEnd(_)
TrimEnd(s) == IF s # <<>> /\ IsSpace(s[Len(s)]) THEN TrimEnd(SubSeq(s, 1, Len(s) - 1)) ELSE s

\* no trimming: if (!query)
NoTrim(s) == s

\* String.prototype.trim
Trim(s) == TrimEnd(TrimStart(s))

LowerChar(ch) ==
  CASE ch = "A" -> "a" [] ch = "B" -> "b" [] ch = "T" -> "t" [] ch = "I" -> "i"
    [] ch = "N" -> "n" [] OTHER -> ch

\* String.prototype.toLowerCase
ToLowerCase(s) == [i \in 1..Len(s) |-> LowerChar(s[i])]

\* String.prototype.includes: needle occurs in hay as a contiguous run
Includes(hay, needle) ==
  \E i \in 0..(Len(hay) - Len(needle)) : SubSeq(hay, i + 1, i + Len(needle)) = needle

\* encodeURIComponent on the category names of the model: a space is escaped,
\* unreserved characters are kept
encodeURIComponent(s) ==
  CASE s = "usul fiqh" -> "usul%20fiqh"
    [] OTHER -> s

-----------------------------------------------------------------------------
(* Resource paths (the template literals of the source) *)

IndexPath == "/index.json"

PageFile(sort, page) == "/" \o sort \o "/page-" \o ToString(page) \o ".json"

PlaylistPath(playlistId, sort, page) == "/playlists/" \o playlistId \o PageFile(sort, page)

CategoryPath(category, sort, page) ==
  "/categories/" \o encodeURIComponent(category) \o PageFile(sort, page)

VideosPath(sort, page) == "/videos" \o PageFile(sort, page)

VideoPath(id) == "/video/" \o id \o ".json"

ManifestPath == "/search/manifest.json"

ChunkPath(i) == "/search/chunk-" \o ToString(i) \o ".json"

SearchPlaylistPath(playlistId) == "/search/playlist/" \o playlistId \o ".json"

SearchCategoryPath(category) == "/search/category/" \o encodeURIComponent(category) \o ".json"

AllKey == "__all__"

-----------------------------------------------------------------------------
(* The pre-generated files under /data: the content of each file is fixed *)

\* a Video (lines 14-24), with the fields the code reads or copies
Video(id, title, playlistId, playlistName) ==
  [id |-> id, title |-> title, duration |-> "PT5M", viewCount |-> "7",
   playlistId |-> playlistId, playlistName |-> playlistName]

SummaryFields == {"id", "title", "duration", "viewCount", "playlistId", "playlistName"}

\* a VideoDetails (lines 26-37)
Details(id, title, playlistId, playlistName, prev, next, index, total) ==
  [kind |-> "VideoDetails", id |-> id, title |-> title, duration |-> "PT5M", viewCount |-> "7",
   playlistId |-> playlistId, playlistName |-> playlistName, description |-> "d",
   nav |-> [prev |-> prev, next |-> next, index |-> index, total |-> total]]

\* a SearchEntry (lines 160-170): id, t (title), p (playlistId), d (duration), vc (viewCount)
Entry(id, t, p, d) == [id |-> id, t |-> t, p |-> p, d |-> d, vc |-> UNDEF]

E1 == Entry("v1", <<"T", "a", "b">>, "PL1", "PT5M")
E2 == Entry("v2", <<"I", "n">>, "PL1", "PT5M")
E3 == Entry("v3", <<"t", "a", "N">>, UNDEF, UNDEF)

IndexDoc == [kind |-> "SiteIndex", totalVideos |-> 3, totalPlaylists |-> 1]

PageDoc(items, page, totalPages) ==
  [kind |-> "VideoPage", items |-> items, total |-> Len(items), page |-> page, pageSize |-> 24,
   totalPages |-> totalPages]

V1 == Video("v1", <<"T", "a", "b">>, "PL1", "Fiqh")
V2 == Video("v2", <<"I", "n">>, "PL1", "Fiqh")
V3 == Video("v3", <<"t", "a", "N">>, UNDEF, UNDEF)

FS ==
  (IndexPath :> IndexDoc)
  @@ (VideosPath("date", 1) :> PageDoc(<<V3, V2, V1>>, 1, 1))
  @@ (VideosPath("views", 1) :> PageDoc(<<V1, V2, V3>>, 1, 1))
  @@ (PlaylistPath("PL1", "date", 1) :> PageDoc(<<V2, V1>>, 1, 1))
  @@ (PlaylistPath("PL1", "views", 1) :> PageDoc(<<V1, V2>>, 1, 1))
  @@ (CategoryPath("usul fiqh", "date", 1) :> PageDoc(<<V3>>, 1, 1))
  @@ (CategoryPath("usul fiqh", "views", 1) :> PageDoc(<<V3>>, 1, 1))
  @@ (VideoPath("v1") :> Details("v1", <<"T", "a", "b">>, "PL1", "Fiqh", NULL, "v2", 0, 2))
  @@ (VideoPath("v2") :> Details("v2", <<"I", "n">>, "PL1", "Fiqh", "v1", NULL, 1, 2))
  @@ (VideoPath("v3") :> Details("v3", <<"t", "a", "N">>, UNDEF, UNDEF, "v9", "v1", 0, 1))
  @@ (ManifestPath :> [kind |-> "Manifest", totalChunks |-> 2])
  @@ (ChunkPath(1) :> [kind |-> "Chunk", entries |-> <<E1, E2>>])
  @@ (ChunkPath(2) :> [kind |-> "Chunk", entries |-> <<E3>>])
  @@ (SearchPlaylistPath("PL1") :> [kind |-> "Array", elems |-> <<E1, E2>>])
  @@ (SearchCategoryPath("usul fiqh") :> [kind |-> "Array", elems |-> <<E3>>])

Exists(path) == path \in DOMAIN FS

-----------------------------------------------------------------------------
(* The bounded cache: lines 74-85 *)

CacheKeys(c) == {c[i].key : i \in 1..Len(c)}

\* cache.has(key)
CacheHas(c, key) == key \in CacheKeys(c)

\* cache.get(key), for a key the cache has
CacheGet(c, key) == c[CHOOSE i \in 1..Len(c) : c[i].key = key].value

\* cache.delete(key): the other entries keep their order
CacheDelete(c, key) == SelectSeq(c, LAMBDA e : e.key # key)

\* cache.set(key, value): a present key keeps its place, a new key goes last
MapSet(c, key, value) ==
  IF CacheHas(c, key)
  THEN [i \in 1..Len(c) |-> IF c[i].key = key THEN [key |-> key, value |-> value] ELSE c[i]]
  ELSE Append(c, [key |-> key, value |-> value])

\* the key inserted last, undefined for an empty map
LastKey(c) == IF c = <<>> THEN UNDEF ELSE c[Len(c)].key

\* line 81: cache.keys().next().value, undefined for an empty map
FirstKey(c) == IF c = <<>> THEN UNDEF ELSE c[1].key

\* cacheSet without the eviction of lines 80-83
cacheSetNoEvict(c, key, value) == MapSet(c, key, value)

\* cacheSet evicting only for a key the map does not hold yet
cacheSetKeepsForPresentKey(c, key, value) ==
  LET firstKey == FirstKey(c)
      c1 == IF Len(c) >= MAX_CACHE_SIZE /\ ~CacheHas(c, key) /\ Truthy(firstKey)
            THEN CacheDelete(c, firstKey) ELSE c
  IN MapSet(c1, key, value)

\* cacheSet(key, value), lines 78-85
cacheSet(c, key, value) ==
  LET firstKey == FirstKey(c)
      c1 == IF Len(c) >= MAX_CACHE_SIZE /\ Truthy(firstKey) THEN CacheDelete(c, firstKey) ELSE c
  IN MapSet(c1, key, value)

-----------------------------------------------------------------------------
(* Tasks: the async calls in flight *)

\* pc: "fetching" = suspended in fetchJson at await fetch / await res.json();
\*     "resume"   = the awaited fetchJson promise has settled (got), the continuation has not run;
\*     "join"     = suspended at await Promise.all([...])
\* ncall and nfetch count the fetchJson calls the call has made and the underlying fetches it
\* has issued; pre is a fact noted when the call started
Idle ==
  [op |-> "idle", pc |-> "idle", arg |-> None, path |-> "", got |-> None, loc |-> None,
   parent |-> 0, role |-> "", kids |-> None, ncall |-> 0, nfetch |-> 0, pre |-> FALSE]

NewTask(op, arg, parent, role, pre) ==
  [Idle EXCEPT !.op = op, !.arg = arg, !.parent = parent, !.role = role, !.pre = pre]

FreeSlots == {t \in Tasks : tasks[t].op = "idle"}

RECURSIVE NthFree(_, _)
NthFree(S, n) ==
  LET m == CHOOSE x \in S : \A y \in S : x <= y
  IN IF n = 1 THEN m ELSE NthFree(S \ {m}, n - 1)

\* the n-th lowest free slot
Slot(n) == NthFree(FreeSlots, n)

\* the calls of the public API in flight (a sub-call whose caller has already returned goes on alone)
Running == Cardinality({t \in Tasks : tasks[t].op # "idle" /\ tasks[t].parent = 0})

CanCall == Running < MaxRunning

InFlight(path) == {t \in Tasks : tasks[t].pc = "fetching" /\ tasks[t].path = path}

NoEv == [ret |-> None]

\* the record of a call that returned: out is Ok(value) for a fulfilled promise, Err(e) for a rejected one
RetEv(tk, out) ==
  [op |-> tk.op, arg |-> tk.arg, out |-> out, got |-> tk.got, ncall |-> tk.ncall,
   nfetch |-> tk.nfetch, pre |-> tk.pre, parent |-> tk.parent, role |-> tk.role]

Count(n) == Min(n + 1, MaxCount)

-----------------------------------------------------------------------------
(* fetchJson: lines 87-109 *)

\* fetchJson without the cache check of line 88
FetchJsonCallNoCache(tk, path) ==
  [tk EXCEPT !.pc = "fetching", !.path = path, !.got = None, !.ncall = @ + 1, !.nfetch = @ + 1]

\* line 88 and the code up to the first await: a hit returns the cached value
\* (the caller's await still suspends it), a miss issues the fetch
FetchJsonCall(tk, path) ==
  IF CacheHas(cache, path)
  THEN [tk EXCEPT !.pc = "resume", !.path = path, !.got = Ok(CacheGet(cache, path)),
                  !.ncall = @ + 1]
  ELSE [tk EXCEPT !.pc = "fetching", !.path = path, !.got = None, !.ncall = @ + 1,
                  !.nfetch = @ + 1]

\* the Error of lines 96 and 104: `Failed to fetch ${path}: ${res.status}`
HttpError(path, status) == [name |-> "Error", path |-> path, status |-> status]

\* what fetch() or res.json() rejects with: the runtime's error, passed on as it is
ReadError == [name |-> "TypeError"]

NoteFailure(h, path) == IF path = IndexPath THEN [h EXCEPT !.indexFailed = TRUE] ELSE h

\* lines 95-99, 103-108 for a response with res.ok whose body parses
FetchOk(t) ==
  /\ tasks[t].pc = "fetching"
  /\ Exists(tasks[t].path)
  /\ LET data == FS[tasks[t].path]
     IN /\ cache' = cacheSet(cache, tasks[t].path, data)
        /\ tasks' = [tasks EXCEPT ![t].pc = "resume", ![t].got = Ok(data)]
        /\ hist' = [hist EXCEPT !.loaded = [k \in CacheKeys(cache') |->
                                              IF k = tasks[t].path THEN data ELSE @[k]]]
  /\ ev' = NoEv
  /\ UNCHANGED <<indexCache, searchCache>>

\* lines 96, 104: a response that is not ok (404 for a missing file, 503 otherwise)
FetchNotOk(t) ==
  /\ tasks[t].pc = "fetching"
  /\ LET status == IF Exists(tasks[t].path) THEN 503 ELSE 404
         e == HttpError(tasks[t].path, status)
     IN /\ tasks' = [tasks EXCEPT ![t].pc = "resume", ![t].got = Err(e)]
        /\ ev' = NoEv
  /\ hist' = NoteFailure(hist, tasks[t].path)
  /\ UNCHANGED <<cache, indexCache, searchCache>>

\* lines 95, 97, 103, 106: fetch() or res.json() rejects (read error, broken body)
FetchReject(t) ==
  /\ tasks[t].pc = "fetching"
  /\ tasks' = [tasks EXCEPT ![t].pc = "resume", ![t].got = Err(ReadError)]
  /\ ev' = NoEv
  /\ hist' = NoteFailure(hist, tasks[t].path)
  /\ UNCHANGED <<cache, indexCache, searchCache>>

-----------------------------------------------------------------------------
(* Returning from a call *)

\* a join in which the result of one branch is taken for every branch
FinishedAllBranches(ts, t, out) ==
  LET tk == ts[t]
      ts1 == [ts EXCEPT ![t] = Idle]
  IN IF tk.parent = 0 THEN ts1
     ELSE [ts1 EXCEPT ![tk.parent].kids = [r \in DOMAIN @ |-> out]]

\* the tasks after task t returned out: its slot is free again, and a task that
\* is one branch of a Promise.all hands its result to the waiting parent
Finished(ts, t, out) ==
  LET tk == ts[t]
      ts1 == [ts EXCEPT ![t] = Idle]
  IN IF tk.parent = 0 THEN ts1
     ELSE [ts1 EXCEPT ![tk.parent].kids = [@ EXCEPT ![tk.role] = out]]

-----------------------------------------------------------------------------
(* getIndex: lines 115-121 *)

NoteIndexReturned(h, v) == IF h.indexReturned = None THEN [h EXCEPT !.indexReturned = v] ELSE h

NoteIndexLoad(h) ==
  IF CacheHas(cache, IndexPath) THEN h ELSE [h EXCEPT !.indexFetches = Count(@)]

\* getIndex without the memo check of line 118
GetIndexCallNoMemo ==
  /\ CanCall
  /\ LET tk == NewTask("getIndex", None, 0, "", hist.indexReturned # None)
     IN /\ tasks' = [tasks EXCEPT ![Slot(1)] = FetchJsonCall(tk, IndexPath)]
        /\ ev' = NoEv
        /\ hist' = NoteIndexLoad(hist)
  /\ UNCHANGED <<cache, indexCache, searchCache>>

\* line 118 and the call of line 119
GetIndexCall ==
  /\ CanCall
  /\ LET t == Slot(1)
         tk == NewTask("getIndex", None, 0, "", hist.indexReturned # None)
     IN IF TruthyObj(indexCache)
        THEN /\ ev' = [NoEv EXCEPT !.ret = RetEv(tk, Ok(indexCache))]
             /\ hist' = NoteIndexReturned(hist, indexCache)
             /\ UNCHANGED tasks
        ELSE /\ tasks' = [tasks EXCEPT ![t] = FetchJsonCall(tk, IndexPath)]
             /\ ev' = NoEv
             /\ hist' = NoteIndexLoad(hist)
  /\ UNCHANGED <<cache, indexCache, searchCache>>

\* getIndex catching the error of the load and returning null, as getVideo does
GetIndexResumeDegrades(t) ==
  /\ tasks[t].op = "getIndex" /\ tasks[t].pc = "resume"
  /\ LET out == IF tasks[t].got.ok THEN Ok(tasks[t].got.val) ELSE Ok(JNull)
     IN /\ indexCache' = out.val
        /\ tasks' = Finished(tasks, t, out)
        /\ ev' = [NoEv EXCEPT !.ret = RetEv(tasks[t], out)]
        /\ hist' = IF tasks[t].got.ok
                   THEN [NoteIndexReturned(hist, out.val) EXCEPT !.indexAssigns = Count(@)]
                   ELSE hist
  /\ UNCHANGED <<cache, searchCache>>

\* lines 119-120 after the await: assign the memo and return it, or pass the error on
GetIndexResume(t) ==
  /\ tasks[t].op = "getIndex" /\ tasks[t].pc = "resume"
  /\ LET got == tasks[t].got
     IN IF got.ok
        THEN /\ indexCache' = got.val
             /\ tasks' = Finished(tasks, t, Ok(got.val))
             /\ ev' = [NoEv EXCEPT !.ret = RetEv(tasks[t], Ok(got.val))]
             /\ hist' = [NoteIndexReturned(hist, got.val) EXCEPT !.indexAssigns = Count(@)]
        ELSE /\ tasks' = Finished(tasks, t, Err(got.err))
             /\ ev' = [NoEv EXCEPT !.ret = RetEv(tasks[t], Err(got.err))]
             /\ UNCHANGED <<indexCache, hist>>
  /\ UNCHANGED <<cache, searchCache>>

-----------------------------------------------------------------------------
(* getVideos: lines 123-145 *)

\* an optional field of an options object, with its default (line 129)
Opt(options, field, default) == IF field \in DOMAIN options THEN options[field] ELSE default

\* lines 129-138 with the category tested before the playlist
ListingPathCategoryFirst(options) ==
  LET page == Opt(options, "page", 1)
      sort == Opt(options, "sort", "date")
      category == Opt(options, "category", UNDEF)
      playlistId == Opt(options, "playlistId", UNDEF)
  IN IF Truthy(category) /\ category # "all" /\ category # "channel"
     THEN CategoryPath(category, sort, page)
     ELSE IF Truthy(playlistId) THEN PlaylistPath(playlistId, sort, page)
          ELSE VideosPath(sort, page)

\* lines 129-138
ListingPath(options) ==
  LET page == Opt(options, "page", 1)
      sort == Opt(options, "sort", "date")
      category == Opt(options, "category", UNDEF)
      playlistId == Opt(options, "playlistId", UNDEF)
  IN IF Truthy(playlistId) THEN PlaylistPath(playlistId, sort, page)
     ELSE IF Truthy(category) /\ category # "all" /\ category # "channel"
          THEN CategoryPath(category, sort, page)
          ELSE VideosPath(sort, page)

\* line 143
EmptyListing(options) ==
  [kind |-> "VideoPage", items |-> <<>>, total |-> 0, page |-> Opt(options, "page", 1),
   pageSize |-> 24, totalPages |-> 0]

\* lines 129-141 up to the await
GetVideosCall(options) ==
  /\ CanCall
  /\ LET t == Slot(1)
         path == ListingPath(options)
     IN /\ tasks' = [tasks EXCEPT ![t] = FetchJsonCall(NewTask("getVideos", options, 0, "", FALSE), path)]
        /\ ev' = NoEv
  /\ UNCHANGED <<cache, indexCache, searchCache, hist>>

\* getVideos without the catch of lines 142-144
GetVideosOutRethrows(tk) == IF tk.got.ok THEN Ok(tk.got.val) ELSE Err(tk.got.err)

\* lines 141-144 after the await
GetVideosOut(tk) == IF tk.got.ok THEN Ok(tk.got.val) ELSE Ok(EmptyListing(tk.arg))

GetVideosResume(t) ==
  /\ tasks[t].op = "getVideos" /\ tasks[t].pc = "resume"
  /\ tasks' = Finished(tasks, t, GetVideosOut(tasks[t]))
  /\ ev' = [NoEv EXCEPT !.ret = RetEv(tasks[t], GetVideosOut(tasks[t]))]
  /\ UNCHANGED <<cache, indexCache, searchCache, hist>>

-----------------------------------------------------------------------------
(* getVideo: lines 147-153 *)

GetVideoCall(id) ==
  /\ CanCall
  /\ LET t == Slot(1)
     IN /\ tasks' = [tasks EXCEPT ![t] = FetchJsonCall(NewTask("getVideo", [id |-> id], 0, "", FALSE), VideoPath(id))]
        /\ ev' = NoEv
  /\ UNCHANGED <<cache, indexCache, searchCache, hist>>

\* lines 148-152 after the await
GetVideoOut(tk) == IF tk.got.ok THEN Ok(tk.got.val) ELSE Ok(JNull)

\* lines 290-294, 295-299: .then(v => v ? { id: v.id, ... } : null)
ThenSummary(out) ==
  IF TruthyObj(out.val) THEN Ok([f \in SummaryFields |-> out.val[f]]) ELSE Ok(JNull)

\* getVideo without the catch of lines 150-152
GetVideoResumeRethrows(t) ==
  /\ tasks[t].op = "getVideo" /\ tasks[t].pc = "resume"
  /\ LET out == IF tasks[t].got.ok THEN Ok(tasks[t].got.val) ELSE Err(tasks[t].got.err)
     IN /\ tasks' = Finished(tasks, t, IF tasks[t].parent = 0 \/ ~out.ok THEN out ELSE ThenSummary(out))
        /\ ev' = [NoEv EXCEPT !.ret = RetEv(tasks[t], out)]
  /\ UNCHANGED <<cache, indexCache, searchCache, hist>>

GetVideoResume(t) ==
  /\ tasks[t].op = "getVideo" /\ tasks[t].pc = "resume"
  /\ LET out == GetVideoOut(tasks[t])
     IN /\ tasks' = Finished(tasks, t, IF tasks[t].parent = 0 THEN out ELSE ThenSummary(out))
        /\ ev' = [NoEv EXCEPT !.ret = RetEv(tasks[t], out)]
  /\ UNCHANGED <<cache, indexCache, searchCache, hist>>

-----------------------------------------------------------------------------
(* search and getSearchEntries: lines 172-252 *)

Max(a, b) == IF a >= b THEN a ELSE b

\* Array.prototype.slice(start, end): a negative index counts from the end
Slice(s, start, end) ==
  LET n == Len(s)
      a == IF start < 0 THEN Max(n + start, 0) ELSE Min(start, n)
      b == IF end < 0 THEN Max(n + end, 0) ELSE Min(end, n)
  IN IF a >= b THEN <<>> ELSE SubSeq(s, a + 1, b)

\* Math.ceil(total / pageSize) for total >= 0 and pageSize >= 1
CeilDiv(total, pageSize) == (total + pageSize - 1) \div pageSize

\* x || dflt for an optional string
OrElse(x, dflt) == IF Truthy(x) THEN x ELSE dflt

\* lines 233-243 (the fields of Video the model carries; playlistName is pn)
EntryToVideo(m) ==
  [id |-> m.id, title |-> m.t, duration |-> OrElse(m.d, ""), viewCount |-> OrElse(m.vc, "0"),
   playlistId |-> m.p, playlistName |-> UNDEF]

MapSeq(s, Op(_)) == [i \in 1..Len(s) |-> Op(s[i])]

\* line 220
EmptySearch(options) ==
  [kind |-> "VideoPage", items |-> <<>>, total |-> 0, page |-> Opt(options, "page", 1),
   pageSize |-> Opt(options, "pageSize", 24), totalPages |-> 0]

\* lines 224-251 with total taken from the page slice
SearchResultCountsPage(entries, query, options) ==
  LET page == Opt(options, "page", 1)
      pageSize == Opt(options, "pageSize", 24)
      q == ToLowerCase(query)
      matches == SelectSeq(entries, LAMBDA e : Includes(ToLowerCase(e.t), q))
      start == (page - 1) * pageSize
      pageMatches == Slice(matches, start, start + pageSize)
      total == Len(pageMatches)
  IN [kind |-> "VideoPage", items |-> MapSeq(pageMatches, EntryToVideo), total |-> total,
      page |-> page, pageSize |-> pageSize, totalPages |-> CeilDiv(total, pageSize)]

\* lines 224-251
SearchResult(entries, query, options) ==
  LET page == Opt(options, "page", 1)
      pageSize == Opt(options, "pageSize", 24)
      q == ToLowerCase(query)
      matches == SelectSeq(entries, LAMBDA e : Includes(ToLowerCase(e.t), q))
      total == Len(matches)
      start == (page - 1) * pageSize
      pageMatches == Slice(matches, start, start + pageSize)
  IN [kind |-> "VideoPage", items |-> MapSeq(pageMatches, EntryToVideo), total |-> total,
      page |-> page, pageSize |-> pageSize, totalPages |-> CeilDiv(total, pageSize)]

\* the key of the scope in searchCache: lines 177-184
ScopeKey(options) ==
  LET category == Opt(options, "category", UNDEF)
      playlistId == Opt(options, "playlistId", UNDEF)
  IN IF Truthy(playlistId) THEN SearchPlaylistPath(playlistId)
     ELSE IF Truthy(category) /\ category # "all" /\ category # "channel"
          THEN SearchCategoryPath(category)
          ELSE AllKey

\* a search-scope cache that holds the last scope only
ScopeSetForgets(sc, key, entries) == (key :> entries)

\* searchCache.set(key, entries)
ScopeSet(sc, key, entries) == (key :> entries) @@ sc

\* search returns the page of matches in entries
SearchFinish(t, entries) ==
  LET out == Ok(SearchResult(entries, tasks[t].arg.query, tasks[t].arg.options))
  IN /\ tasks' = Finished(tasks, t, out)
     /\ ev' = [NoEv EXCEPT !.ret = RetEv(tasks[t], out)]

\* lines 217-223 and the synchronous part of getSearchEntries (lines 175-183, 197-199, 205)
SearchCall(query, options) ==
  /\ CanCall
  /\ LET t == Slot(1)
         key == ScopeKey(options)
         tk == NewTask("search", [query |-> query, options |-> options], 0, "", key \in DOMAIN searchCache)
     IN IF Trim(query) = <<>>
        THEN /\ ev' = [NoEv EXCEPT !.ret = RetEv(tk, Ok(EmptySearch(options)))]
             /\ UNCHANGED tasks
        ELSE IF key = AllKey
        THEN /\ tasks' = [tasks EXCEPT ![t] = FetchJsonCall([tk EXCEPT !.loc = [stage |-> "manifest"]], ManifestPath)]
             /\ ev' = NoEv
        ELSE IF key \notin DOMAIN searchCache
        THEN /\ tasks' = [tasks EXCEPT ![t] = FetchJsonCall([tk EXCEPT !.loc = [stage |-> "scope"]], key)]
             /\ ev' = NoEv
        ELSE /\ tasks' = [tasks EXCEPT ![t] = [tk EXCEPT !.pc = "resume", !.loc = [stage |-> "entries"],
                                                        !.got = Ok(searchCache[key])]]
             /\ ev' = NoEv
  /\ UNCHANGED <<cache, indexCache, searchCache, hist>>

\* lines 188-194 with the loop bound i < manifest.totalChunks
SearchLoopStopsEarly(t, manifest, i, entries) ==
  IF i < manifest.totalChunks
  THEN /\ tasks' = [tasks EXCEPT ![t] =
                      FetchJsonCall([tasks[t] EXCEPT !.loc = [stage |-> "chunk", manifest |-> manifest,
                                                              i |-> i, entries |-> entries]],
                                    ChunkPath(i))]
       /\ ev' = NoEv
       /\ UNCHANGED searchCache
  ELSE /\ searchCache' = ScopeSet(searchCache, AllKey, entries)
       /\ SearchFinish(t, entries)

\* lines 188-194: the loop from chunk i on, up to the next await or the return
SearchLoop(t, manifest, i, entries) ==
  IF i <= manifest.totalChunks
  THEN /\ tasks' = [tasks EXCEPT ![t] =
                      FetchJsonCall([tasks[t] EXCEPT !.loc = [stage |-> "chunk", manifest |-> manifest,
                                                              i |-> i, entries |-> entries]],
                                    ChunkPath(i))]
       /\ ev' = NoEv
       /\ UNCHANGED searchCache
  ELSE /\ searchCache' = ScopeSet(searchCache, AllKey, entries)
       /\ SearchFinish(t, entries)

\* line 183 after the await, lines 184-187, 194
SearchManifestResume(t) ==
  /\ tasks[t].op = "search" /\ tasks[t].pc = "resume" /\ tasks[t].loc.stage = "manifest"
  /\ LET got == tasks[t].got
     IN IF ~got.ok
        THEN /\ tasks' = Finished(tasks, t, Err(got.err))
             /\ ev' = [NoEv EXCEPT !.ret = RetEv(tasks[t], Err(got.err))]
             /\ UNCHANGED searchCache
        ELSE IF AllKey \notin DOMAIN searchCache
        THEN SearchLoop(t, got.val, 1, <<>>)
        ELSE /\ SearchFinish(t, searchCache[AllKey])
             /\ UNCHANGED searchCache
  /\ UNCHANGED <<cache, indexCache, hist>>

\* line 189 with the failure of a chunk caught and the chunk left out
SearchChunkResumeSkips(t) ==
  /\ tasks[t].op = "search" /\ tasks[t].pc = "resume" /\ tasks[t].loc.stage = "chunk"
  /\ LET got == tasks[t].got
         loc == tasks[t].loc
     IN SearchLoop(t, loc.manifest, loc.i + 1,
                   IF got.ok THEN loc.entries \o got.val.entries ELSE loc.entries)
  /\ UNCHANGED <<cache, indexCache, hist>>

\* line 189 after the await, line 190 and the next round of the loop
SearchChunkResume(t) ==
  /\ tasks[t].op = "search" /\ tasks[t].pc = "resume" /\ tasks[t].loc.stage = "chunk"
  /\ LET got == tasks[t].got
         loc == tasks[t].loc
     IN IF ~got.ok
        THEN /\ tasks' = Finished(tasks, t, Err(got.err))
             /\ ev' = [NoEv EXCEPT !.ret = RetEv(tasks[t], Err(got.err))]
             /\ UNCHANGED searchCache
        ELSE SearchLoop(t, loc.manifest, loc.i + 1, loc.entries \o got.val.entries)
  /\ UNCHANGED <<cache, indexCache, hist>>

\* lines 199-205 with a catch that records an empty list for the scope
SearchScopeResumeCachesEmpty(t) ==
  /\ tasks[t].op = "search" /\ tasks[t].pc = "resume" /\ tasks[t].loc.stage = "scope"
  /\ LET got == tasks[t].got
         entries == IF got.ok THEN got.val.elems ELSE <<>>
     IN /\ searchCache' = ScopeSet(searchCache, tasks[t].path, entries)
        /\ SearchFinish(t, entries)
  /\ UNCHANGED <<cache, indexCache, hist>>

\* lines 199-205 after the await
SearchScopeResume(t) ==
  /\ tasks[t].op = "search" /\ tasks[t].pc = "resume" /\ tasks[t].loc.stage = "scope"
  /\ LET got == tasks[t].got
     IN IF got.ok
        THEN /\ searchCache' = ScopeSet(searchCache, tasks[t].path, got.val.elems)
             /\ SearchFinish(t, got.val.elems)
        ELSE /\ SearchFinish(t, <<>>)
             /\ UNCHANGED searchCache
  /\ UNCHANGED <<cache, indexCache, hist>>

\* lines 197, 205 with the scope already in searchCache, then line 223 after the await
SearchEntriesResume(t) ==
  /\ tasks[t].op = "search" /\ tasks[t].pc = "resume" /\ tasks[t].loc.stage = "entries"
  /\ SearchFinish(t, tasks[t].got.val)
  /\ UNCHANGED <<cache, indexCache, searchCache, hist>>

-----------------------------------------------------------------------------
(* loadStudyHome: lines 263-274 *)

Settled(r) == r # None

\* line 269-272: getIndex() and getVideos(options) run up to their first await, then Promise.all
LoadStudyHomeCall(options) ==
  /\ CanCall
  /\ LET p == Slot(1)
         memo == TruthyObj(indexCache)
         a == Slot(2)
         b == IF memo THEN Slot(2) ELSE Slot(3)
         path == ListingPath(options)
         index == NewTask("getIndex", None, p, "index", hist.indexReturned # None)
         videos == NewTask("getVideos", options, p, "videos", FALSE)
         parent == [NewTask("loadStudyHome", options, 0, "", FALSE) EXCEPT
                      !.pc = "join",
                      !.kids = [index |-> IF memo THEN Ok(indexCache) ELSE None, videos |-> None]]
         ts == [tasks EXCEPT ![p] = parent, ![b] = FetchJsonCall(videos, path)]
     IN IF memo
        THEN /\ tasks' = ts
             /\ ev' = [NoEv EXCEPT !.ret = RetEv(index, Ok(indexCache))]
             /\ hist' = NoteIndexReturned(hist, indexCache)
        ELSE /\ tasks' = [ts EXCEPT ![a] = FetchJsonCall(index, IndexPath)]
             /\ ev' = NoEv
             /\ hist' = NoteIndexLoad(hist)
  /\ UNCHANGED <<cache, indexCache, searchCache>>

\* the sub-calls of t go on alone
Orphaned(ts, t) ==
  [u \in Tasks |-> IF ts[u].parent = t THEN [ts[u] EXCEPT !.parent = 0, !.role = ""] ELSE ts[u]]

\* line 269 after the await, line 273: Promise.all rejects with the first rejection,
\* and is fulfilled when both are
LoadStudyHomeJoin(t) ==
  /\ tasks[t].op = "loadStudyHome" /\ tasks[t].pc = "join"
  /\ LET kids == tasks[t].kids
     IN IF Settled(kids.index) /\ ~kids.index.ok
        THEN /\ tasks' = Orphaned(Finished(tasks, t, kids.index), t)
             /\ ev' = [NoEv EXCEPT !.ret = RetEv(tasks[t], kids.index)]
        ELSE /\ Settled(kids.index) /\ Settled(kids.videos)
             /\ LET out == Ok([index |-> kids.index.val, videos |-> kids.videos.val])
                IN /\ tasks' = Finished(tasks, t, out)
                   /\ ev' = [NoEv EXCEPT !.ret = RetEv(tasks[t], out)]
  /\ UNCHANGED <<cache, indexCache, searchCache, hist>>

-----------------------------------------------------------------------------
(* loadVideoPage: lines 285-310 *)

\* line 306
DefaultPlaylistName == "durus mutanawwia"

\* line 286 up to the await inside getVideo
LoadVideoPageCall(id) ==
  /\ CanCall
  /\ LET t == Slot(1)
     IN /\ tasks' = [tasks EXCEPT ![t] = FetchJsonCall(NewTask("loadVideoPage", [id |-> id], 0, "", FALSE), VideoPath(id))]
        /\ ev' = NoEv
  /\ UNCHANGED <<cache, indexCache, searchCache, hist>>

\* loadVideoPage calling fetchJson for the detail without the catch of getVideo
LoadVideoPageResumeRethrows(t) ==
  /\ tasks[t].op = "loadVideoPage" /\ tasks[t].pc = "resume"
  /\ IF ~tasks[t].got.ok
     THEN /\ tasks' = Finished(tasks, t, Err(tasks[t].got.err))
          /\ ev' = [NoEv EXCEPT !.ret = RetEv(tasks[t], Err(tasks[t].got.err))]
     ELSE LET video == tasks[t].got.val
              prev == video.nav.prev
              next == video.nav.next
              a == Slot(1)
              b == IF Truthy(prev) THEN Slot(2) ELSE Slot(1)
              parent == [tasks[t] EXCEPT
                           !.pc = "join", !.loc = video,
                           !.kids = [prev |-> IF Truthy(prev) THEN None ELSE Ok(JNull),
                                     next |-> IF Truthy(next) THEN None ELSE Ok(JNull)]]
              ts0 == [tasks EXCEPT ![t] = parent]
              ts1 == IF Truthy(prev)
                     THEN [ts0 EXCEPT ![a] = FetchJsonCall(NewTask("getVideo", [id |-> prev], t, "prev", FALSE), VideoPath(prev))]
                     ELSE ts0
              ts2 == IF Truthy(next)
                     THEN [ts1 EXCEPT ![b] = FetchJsonCall(NewTask("getVideo", [id |-> next], t, "next", FALSE), VideoPath(next))]
                     ELSE ts1
          IN /\ tasks' = ts2
             /\ ev' = NoEv
  /\ UNCHANGED <<cache, indexCache, searchCache, hist>>

\* lines 148-152 of the inner getVideo, then lines 286-300 up to await Promise.all
LoadVideoPageResume(t) ==
  /\ tasks[t].op = "loadVideoPage" /\ tasks[t].pc = "resume"
  /\ LET video == GetVideoOut(tasks[t]).val
     IN IF ~TruthyObj(video)
        THEN /\ tasks' = Finished(tasks, t, Ok(JNull))
             /\ ev' = [NoEv EXCEPT !.ret = RetEv(tasks[t], Ok(JNull))]
        ELSE LET prev == video.nav.prev
                 next == video.nav.next
                 a == Slot(1)
                 b == IF Truthy(prev) THEN Slot(2) ELSE Slot(1)
                 parent == [tasks[t] EXCEPT
                              !.pc = "join", !.loc = video,
                              !.kids = [prev |-> IF Truthy(prev) THEN None ELSE Ok(JNull),
                                        next |-> IF Truthy(next) THEN None ELSE Ok(JNull)]]
                 ts0 == [tasks EXCEPT ![t] = parent]
                 ts1 == IF Truthy(prev)
                        THEN [ts0 EXCEPT ![a] = FetchJsonCall(NewTask("getVideo", [id |-> prev], t, "prev", FALSE), VideoPath(prev))]
                        ELSE ts0
                 ts2 == IF Truthy(next)
                        THEN [ts1 EXCEPT ![b] = FetchJsonCall(NewTask("getVideo", [id |-> next], t, "next", FALSE), VideoPath(next))]
                        ELSE ts1
             IN /\ tasks' = ts2
                /\ ev' = NoEv
  /\ UNCHANGED <<cache, indexCache, searchCache, hist>>

\* lines 302-309 with nav.index and nav.total taken for each other
LoadVideoPageJoinSwapsCounts(t) ==
  /\ tasks[t].op = "loadVideoPage" /\ tasks[t].pc = "join"
  /\ Settled(tasks[t].kids.prev) /\ Settled(tasks[t].kids.next)
  /\ LET video == tasks[t].loc
         out == Ok([video |-> video, prevVideo |-> tasks[t].kids.prev.val,
                    nextVideo |-> tasks[t].kids.next.val,
                    playlistName |-> OrElse(video.playlistName, DefaultPlaylistName),
                    playlistVideoCount |-> video.nav.index, currentIndex |-> video.nav.total])
     IN /\ tasks' = Finished(tasks, t, out)
        /\ ev' = [NoEv EXCEPT !.ret = RetEv(tasks[t], out)]
  /\ UNCHANGED <<cache, indexCache, searchCache, hist>>

\* line 289 after the await, lines 302-309
LoadVideoPageJoin(t) ==
  /\ tasks[t].op = "loadVideoPage" /\ tasks[t].pc = "join"
  /\ Settled(tasks[t].kids.prev) /\ Settled(tasks[t].kids.next)
  /\ LET video == tasks[t].loc
         out == Ok([video |-> video, prevVideo |-> tasks[t].kids.prev.val,
                    nextVideo |-> tasks[t].kids.next.val,
                    playlistName |-> OrElse(video.playlistName, DefaultPlaylistName),
                    playlistVideoCount |-> video.nav.total, currentIndex |-> video.nav.index])
     IN /\ tasks' = Finished(tasks, t, out)
        /\ ev' = [NoEv EXCEPT !.ret = RetEv(tasks[t], out)]
  /\ UNCHANGED <<cache, indexCache, searchCache, hist>>

-----------------------------------------------------------------------------
(* Specifications *)

Init ==
  /\ cache = <<>>
  /\ indexCache = JNull
  /\ searchCache = <<>>
  /\ tasks = [t \in Tasks |-> Idle]
  /\ ev = NoEv
  /\ hist = [indexReturned |-> None, indexFetches |-> 0, indexAssigns |-> 0,
             indexFailed |-> FALSE, loaded |-> <<>>]

\* the caller awaits each call of the public API before it makes the next
Alone == Running = 0

\* Spec: overlapping calls of getIndex, getVideos and getVideo
Next ==
  \/ GetIndexCall
  \/ GetVideosCall([page |-> 1])
  \/ GetVideoCall("v1")
  \/ \E t \in Tasks :
       \/ FetchOk(t)
       \/ FetchNotOk(t)
       \/ FetchReject(t)
       \/ GetIndexResume(t)
       \/ GetVideosResume(t)
       \/ GetVideoResume(t)

Spec == Init /\ [][Next]_vars

\* SpecAll: every operation of the public API, one call after the other (the sub-calls of a
\* composite loader overlap)
NextAll ==
  \/ Alone /\ GetIndexCall
  \/ Alone /\ \E options \in {[page |-> 1], [page |-> 999]} : GetVideosCall(options)
  \/ Alone /\ \E id \in {"v2", "v9"} : GetVideoCall(id)
  \/ Alone /\ \E query \in {<<>>, <<"t", "a">>}, options \in {<<>>, [playlistId |-> "PL1"]} :
                SearchCall(query, options)
  \/ Alone /\ LoadStudyHomeCall([page |-> 1])
  \/ Alone /\ \E id \in {"v1", "v3"} : LoadVideoPageCall(id)
  \/ \E t \in Tasks :
       \/ FetchOk(t)
       \/ FetchNotOk(t)
       \/ FetchReject(t)
       \/ GetIndexResume(t)
       \/ GetVideosResume(t)
       \/ GetVideoResume(t)
       \/ SearchManifestResume(t)
       \/ SearchChunkResume(t)
       \/ SearchScopeResume(t)
       \/ SearchEntriesResume(t)
       \/ LoadStudyHomeJoin(t)
       \/ LoadVideoPageResume(t)
       \/ LoadVideoPageJoin(t)

SpecAll == Init /\ [][NextAll]_vars

\* SpecListing: getVideos over the combinations of its options, one call after the other
ListingOptions ==
  {<<>>} \cup [page : {2, 999}] \cup [sort : {"views"}]
  \cup [category : {"all", "channel", "usul fiqh", ""}]
  \cup [playlistId : {"PL1", ""}, category : {"all", "usul fiqh"}]
  \cup [playlistId : {"PL1"}, category : {"usul fiqh"}, sort : {"date", "views"}, page : {1, 999}]

NextListing ==
  \/ Alone /\ \E options \in ListingOptions : GetVideosCall(options)
  \/ \E t \in Tasks :
       \/ FetchOk(t)
       \/ FetchNotOk(t)
       \/ FetchReject(t)
       \/ GetVideosResume(t)

SpecListing == Init /\ [][NextListing]_vars

\* SpecSearch: searches over the three kinds of scope, with getVideo calls in between, one
\* call after the other
Queries == {<<>>, <<" ">>, <<" ", "\t">>, <<"t", "a">>, <<"N">>}

SearchOptions ==
  {<<>>, [category |-> "usul fiqh"], [playlistId |-> "PL1"],
   [category |-> "all", page |-> 2, pageSize |-> 1]}

NextSearch ==
  \/ Alone /\ \E query \in Queries, options \in SearchOptions : SearchCall(query, options)
  \/ Alone /\ \E id \in {"v1", "v2"} : GetVideoCall(id)
  \/ \E t \in Tasks :
       \/ FetchOk(t)
       \/ FetchNotOk(t)
       \/ FetchReject(t)
       \/ GetVideoResume(t)
       \/ SearchManifestResume(t)
       \/ SearchChunkResume(t)
       \/ SearchScopeResume(t)
       \/ SearchEntriesResume(t)

SpecSearch == Init /\ [][NextSearch]_vars

\* SpecPaging: searches over the pages of the match list, in range and out of range, one
\* call after the other
PagingQueries == {<<"t", "a">>, <<"N">>, <<"b">>, <<"z">>}

PagingOptions ==
  [page : {-1, 0, 1, 2, 3}, pageSize : {1, 2}]
  \cup [playlistId : {"PL1"}, page : {1, 2}, pageSize : {1}]
  \cup [category : {"usul fiqh"}, pageSize : {2}]

NextPaging ==
  \/ Alone /\ \E query \in PagingQueries, options \in PagingOptions : SearchCall(query, options)
  \/ \E t \in Tasks :
       \/ FetchOk(t)
       \/ FetchNotOk(t)
       \/ FetchReject(t)
       \/ SearchManifestResume(t)
       \/ SearchChunkResume(t)
       \/ SearchScopeResume(t)
       \/ SearchEntriesResume(t)

SpecPaging == Init /\ [][NextPaging]_vars

\* SpecPage: loadVideoPage and getVideo over videos with and without neighbours and a
\* missing video, one call after the other (the two neighbour loads overlap)
NextPage ==
  \/ Alone /\ \E id \in {"v1", "v2", "v3", "v9"} : LoadVideoPageCall(id)
  \/ Alone /\ \E id \in {"v2", "v9"} : GetVideoCall(id)
  \/ \E t \in Tasks :
       \/ FetchOk(t)
       \/ FetchNotOk(t)
       \/ FetchReject(t)
       \/ GetVideoResume(t)
       \/ LoadVideoPageResume(t)
       \/ LoadVideoPageJoin(t)

SpecPage == Init /\ [][NextPage]_vars

\* SpecOverlap: overlapping searches of the global scope and of a playlist scope, whose
\* loads succeed or fail with a response that is not ok
NextOverlap ==
  \/ \E options \in {<<>>, [playlistId |-> "PL1"]} : SearchCall(<<"t", "a">>, options)
  \/ \E t \in Tasks :
       \/ FetchOk(t)
       \/ FetchNotOk(t)
       \/ SearchManifestResume(t)
       \/ SearchChunkResume(t)
       \/ SearchScopeResume(t)
       \/ SearchEntriesResume(t)

SpecOverlap == Init /\ [][NextOverlap]_vars

-----------------------------------------------------------------------------
(* The claims *)

\* C1: in every reachable state, whatever loads getIndex, getVideos, getVideo, search and
\* the composite loaders have made, the bounded cache holds at most MAX_CACHE_SIZE entries.
CacheNeverExceedsCapacity == Len(cache) <= MAX_CACHE_SIZE

\* C1 witness: the cache is full and /index.json, loaded earlier, has been evicted from it
CacheFullAfterEviction ==
  /\ Len(cache) = MAX_CACHE_SIZE
  /\ indexCache # JNull
  /\ ~CacheHas(cache, IndexPath)

\* C2: a fetchJson call for a path whose load completed successfully before and which has
\* not been evicted since (the domain of hist.loaded) issues no underlying fetch and gets
\* the value that load returned.
RepeatedLoadHitsCache ==
  [][\A t \in Tasks :
       LET P == tasks'[t].path
       IN (tasks'[t].ncall > tasks[t].ncall /\ P \in DOMAIN hist.loaded)
            => /\ tasks'[t].nfetch = tasks[t].nfetch
               /\ tasks'[t].pc = "resume"
               /\ tasks'[t].got = Ok(hist.loaded[P])
               /\ {u \in Tasks : tasks'[u].pc = "fetching" /\ tasks'[u].path = P} = InFlight(P)]_vars

\* C2 witness: a call whose only load was served from the cache, with no fetch
CachedLoadServed ==
  \E t \in Tasks :
    /\ tasks[t].pc = "resume" /\ tasks[t].ncall = 1 /\ tasks[t].nfetch = 0
    /\ tasks[t].path \in DOMAIN hist.loaded
    /\ tasks[t].got = Ok(hist.loaded[tasks[t].path])

\* C3: a getIndex call made after a getIndex call has returned successfully returns that
\* same Site Index and issues no underlying fetch, also when /index.json is no longer in
\* the bounded cache.
IndexMemoSurvivesEviction ==
  (ev.ret # None /\ ev.ret.op = "getIndex" /\ ev.ret.pre)
    => (ev.ret.out = Ok(hist.indexReturned) /\ ev.ret.nfetch = 0)

\* C3 witness: such a call returned while /index.json was evicted from the full cache
IndexServedAfterEviction ==
  /\ ev.ret # None /\ ev.ret.op = "getIndex" /\ ev.ret.pre
  /\ Len(cache) = MAX_CACHE_SIZE
  /\ ~CacheHas(cache, IndexPath)

\* C4: as long as no fetch of /index.json has failed, /index.json is fetched at most once
\* and the index memo is assigned at most once, overlapping getIndex calls included.
IndexLoadedOnce ==
  (~hist.indexFailed /\ InFlight(IndexPath) = {})
    => (hist.indexFetches <= 1 /\ hist.indexAssigns <= 1)

CarriesPath(e, path) == "path" \in DOMAIN e /\ e.path = path

\* C5: when the underlying load of a path fails (a response that is not ok, or a read
\* error), fetchJson fails with an error that carries the path, and the bounded cache is
\* left as it was.
FailedLoadCarriesPath ==
  [][\A t \in Tasks :
       (tasks[t].pc = "fetching" /\ tasks'[t].pc = "resume" /\ ~tasks'[t].got.ok)
         => (CarriesPath(tasks'[t].got.err, tasks[t].path) /\ cache' = cache)]_vars

\* C6: when the load of /index.json fails, getIndex fails with that error and leaves the
\* index memo as it was; and while the memo is unset no getIndex call returns without
\* having called the load.
IndexFailurePropagates ==
  [][/\ \A t \in Tasks :
          (tasks[t].op = "getIndex" /\ tasks[t].pc = "resume" /\ ~tasks[t].got.ok
             /\ tasks'[t].op = "idle")
            => /\ ev'.ret # None /\ ev'.ret.op = "getIndex"
               /\ ev'.ret.out = Err(tasks[t].got.err)
               /\ indexCache' = indexCache
     /\ (indexCache = JNull /\ ev'.ret # None /\ ev'.ret.op = "getIndex")
          => ev'.ret.ncall = 1]_vars

\* C6 witness: a getIndex call has failed and the memo is unset
IndexFailureSeen ==
  /\ ev.ret # None /\ ev.ret.op = "getIndex" /\ ~ev.ret.out.ok
  /\ ev.ret.out.err = ev.ret.got.err
  /\ indexCache = JNull

RequestedPage(options) == IF "page" \in DOMAIN options THEN options.page ELSE 1

\* C7: getVideos never fails; when the load of the listing fragment fails it returns the
\* page with items = [], total = 0, totalPages = 0, the requested page and the page size
\* 24, and neither the failed load nor the return changes the bounded cache.
ListingNeverFails ==
  [][\A t \in Tasks :
       tasks[t].op = "getVideos" =>
         /\ (tasks[t].pc = "fetching" /\ tasks'[t].pc = "resume" /\ ~tasks'[t].got.ok)
              => cache' = cache
         /\ (tasks[t].pc = "resume" /\ tasks'[t].op = "idle")
              => /\ ev'.ret # None /\ ev'.ret.op = "getVideos" /\ ev'.ret.out.ok
                 /\ ~tasks[t].got.ok
                      => /\ ev'.ret.out.val.items = <<>>
                         /\ ev'.ret.out.val.total = 0
                         /\ ev'.ret.out.val.totalPages = 0
                         /\ ev'.ret.out.val.page = RequestedPage(tasks[t].arg)
                         /\ ev'.ret.out.val.pageSize = 24
                         /\ cache' = cache]_vars

\* C7 witness: getVideos returned the empty page 999 after its load failed
EmptyListingReturned ==
  /\ ev.ret # None /\ ev.ret.op = "getVideos" /\ ~ev.ret.got.ok
  /\ RequestedPage(ev.ret.arg) = 999
  /\ ev.ret.out.ok /\ ev.ret.out.val.page = 999 /\ ev.ret.out.val.items = <<>>

\* a selector that is given and not empty
Given(options, field) == field \in DOMAIN options /\ options[field] # ""

PercentEncoded(category) == IF category = "usul fiqh" THEN "usul%20fiqh" ELSE category

\* the listing path as the claim states it
ExpectedListingPath(options) ==
  LET sort == IF "sort" \in DOMAIN options THEN options.sort ELSE "date"
      file == "/" \o sort \o "/page-" \o ToString(RequestedPage(options)) \o ".json"
  IN IF Given(options, "playlistId") THEN "/playlists/" \o options.playlistId \o file
     ELSE IF Given(options, "category") /\ options.category \notin {"all", "channel"}
          THEN "/categories/" \o PercentEncoded(options.category) \o file
          ELSE "/videos" \o file

\* C8: each getVideos call loads exactly one path: the playlist path when a playlist
\* selector is present, whatever the category; otherwise the category path when a category
\* is present and is neither "all" nor "channel"; otherwise the all-videos path.
ListingPathByPrecedence ==
  /\ \A t \in Tasks :
       tasks[t].op = "getVideos"
         => (tasks[t].ncall = 1 /\ tasks[t].path = ExpectedListingPath(tasks[t].arg))
  /\ (ev.ret # None /\ ev.ret.op = "getVideos") => ev.ret.ncall = 1

\* C8 witness: a call with both selectors present loads the playlist path
PlaylistPathChosen ==
  \E t \in Tasks :
    /\ tasks[t].op = "getVideos"
    /\ Given(tasks[t].arg, "playlistId") /\ Given(tasks[t].arg, "category")
    /\ tasks[t].arg.category = "usul fiqh"
    /\ tasks[t].path = "/playlists/PL1/views/page-999.json"

IsBlank(query) == \A i \in 1..Len(query) : query[i] \in {" ", "\t", "\n"}

\* C9: a search with an empty or whitespace-only query returns items = [], total = 0,
\* totalPages = 0 in the step of the call, issues no fetch, starts nothing, and leaves the
\* bounded cache, the index memo and the search-scope cache as they were.
BlankSearchIsNoOp ==
  [][(ev'.ret # None /\ ev'.ret.op = "search" /\ IsBlank(ev'.ret.arg.query))
       => /\ ev'.ret.out.ok
          /\ ev'.ret.out.val.items = <<>>
          /\ ev'.ret.out.val.total = 0
          /\ ev'.ret.out.val.totalPages = 0
          /\ ev'.ret.nfetch = 0
          /\ cache' = cache /\ indexCache' = indexCache /\ searchCache' = searchCache
          /\ \A t \in Tasks :
               /\ tasks'[t].op = tasks[t].op /\ tasks'[t].pc = tasks[t].pc
               /\ tasks'[t].nfetch = tasks[t].nfetch]_vars

\* C9 witness: a whitespace-only search with page and pageSize given returned, the
\* bounded cache and the search-scope cache not being empty
BlankSearchReturned ==
  /\ ev.ret # None /\ ev.ret.op = "search"
  /\ ev.ret.arg.query = <<" ", "\t">>
  /\ "pageSize" \in DOMAIN ev.ret.arg.options
  /\ ev.ret.out.val.total = 0
  /\ cache # <<>> /\ DOMAIN searchCache # {}

\* C10: a non-empty search made when its scope is already in the search-scope cache
\* issues no underlying fetch and succeeds.
LoadedScopeNeverRefetches ==
  /\ \A t \in Tasks : (tasks[t].op = "search" /\ tasks[t].pre) => tasks[t].nfetch = 0
  /\ (ev.ret # None /\ ev.ret.op = "search" /\ ev.ret.pre)
       => (ev.ret.nfetch = 0 /\ ev.ret.out.ok)

\* the same letter, whatever the case
SameLetter(a, b) ==
  \/ a = b
  \/ {a, b} \in {{"A", "a"}, {"B", "b"}, {"T", "t"}, {"I", "i"}, {"N", "n"}}

\* the title contains the query as a contiguous run, case-insensitively
ContainsNoCase(title, query) ==
  \E k \in 0..(Len(title) - Len(query)) :
    \A i \in 1..Len(query) : SameLetter(title[k + i], query[i])

\* the positions of list whose title contains the query
MatchPositions(list, query) == {i \in 1..Len(list) : ContainsNoCase(list[i].t, query)}

\* C11: when the load of a category or playlist search file fails, the search returns the
\* empty result (total = 0) and records nothing for the scope in the search-scope cache;
\* a non-empty search for a scope that is not in the search-scope cache calls the load of
\* the scope file, and when that load succeeds the search counts the real matches of the file.
ScopedSearchDegrades ==
  [][\A t \in Tasks :
       /\ (tasks[t].op = "search" /\ tasks[t].pc = "resume" /\ tasks[t].loc.stage = "scope"
             /\ tasks'[t].op = "idle")
            => /\ ev'.ret # None /\ ev'.ret.op = "search" /\ ev'.ret.out.ok
               /\ IF tasks[t].got.ok
                  THEN ev'.ret.out.val.total =
                         Cardinality(MatchPositions(FS[tasks[t].path].elems, tasks[t].arg.query))
                  ELSE /\ ev'.ret.out.val.total = 0
                       /\ ev'.ret.out.val.items = <<>>
                       /\ searchCache' = searchCache
                       /\ tasks[t].path \notin DOMAIN searchCache'
       /\ (tasks[t].op = "idle" /\ tasks'[t].op = "search"
             /\ ScopeKey(tasks'[t].arg.options) # AllKey
             /\ ScopeKey(tasks'[t].arg.options) \notin DOMAIN searchCache)
            => /\ tasks'[t].ncall = 1
               /\ tasks'[t].path = ScopeKey(tasks'[t].arg.options)
               /\ tasks'[t].loc.stage = "scope"]_vars

\* C11 witness: a playlist search returned the empty result after the load of its file
\* failed, and the scope is not in the search-scope cache
ScopedSearchDegraded ==
  /\ ev.ret # None /\ ev.ret.op = "search"
  /\ ScopeKey(ev.ret.arg.options) = SearchPlaylistPath("PL1")
  /\ ev.ret.nfetch = 1 /\ ~ev.ret.got.ok
  /\ ev.ret.out.ok /\ ev.ret.out.val.total = 0
  /\ SearchPlaylistPath("PL1") \notin DOMAIN searchCache

\* C12: when the load of the manifest or of a chunk fails during a global-scope search,
\* the search fails with that error, returning no result, and the search-scope cache is
\* left as it was: the global scope is not marked Loaded.
GlobalSearchFailurePropagates ==
  [][\A t \in Tasks :
       (/\ tasks[t].op = "search" /\ tasks[t].pc = "resume"
        /\ tasks[t].loc.stage \in {"manifest", "chunk"}
        /\ ~tasks[t].got.ok
        /\ (tasks'[t].pc # "resume" \/ tasks'[t].ncall # tasks[t].ncall))
         => /\ tasks'[t].op = "idle"
            /\ ev'.ret # None /\ ev'.ret.op = "search"
            /\ ev'.ret.out = Err(tasks[t].got.err)
            /\ searchCache' = searchCache]_vars

\* C12 witness: a global search failed at a chunk, after the manifest was loaded, and
\* the global scope is not in the search-scope cache
GlobalSearchFailed ==
  /\ ev.ret # None /\ ev.ret.op = "search" /\ ~ev.ret.out.ok
  /\ ev.ret.ncall >= 2
  /\ ev.ret.out.err = ev.ret.got.err
  /\ AllKey \notin DOMAIN searchCache

RECURSIVE ChunkEntriesFrom(_)
\* the entries of the chunks i, i + 1, ... that the manifest declares, in that order
ChunkEntriesFrom(i) ==
  IF i > FS["/search/manifest.json"].totalChunks THEN <<>>
  ELSE FS["/search/chunk-" \o ToString(i) \o ".json"].entries \o ChunkEntriesFrom(i + 1)

\* the whole entry list of the scope the options select
WholeScopeList(options) ==
  IF Given(options, "playlistId")
  THEN FS["/search/playlist/" \o options.playlistId \o ".json"].elems
  ELSE IF Given(options, "category") /\ options.category \notin {"all", "channel"}
       THEN FS["/search/category/" \o PercentEncoded(options.category) \o ".json"].elems
       ELSE ChunkEntriesFrom(1)

RequestedPageSize(options) == IF "pageSize" \in DOMAIN options THEN options.pageSize ELSE 24

\* a search with a non-empty query returned a page computed from the loaded scope list
SearchAnswered ==
  /\ ev.ret # None /\ ev.ret.op = "search"
  /\ ~IsBlank(ev.ret.arg.query)
  /\ ev.ret.out.ok /\ ev.ret.got.ok

\* C13: for a non-empty query, total is the number of entries of the whole scope list
\* whose title contains the query case-insensitively, and totalPages is the least n with
\* n * pageSize >= total (pageSize >= 1); neither depends on the requested page.
SearchTotalsCountAllMatches ==
  SearchAnswered =>
    LET total == Cardinality(MatchPositions(WholeScopeList(ev.ret.arg.options), ev.ret.arg.query))
        pageSize == RequestedPageSize(ev.ret.arg.options)
    IN /\ ev.ret.out.val.total = total
       /\ ev.ret.out.val.totalPages * pageSize >= total
       /\ (ev.ret.out.val.totalPages - 1) * pageSize < total

\* C13 witness: page 3 of a global search with two matches and pageSize 1 is empty, with
\* total = 2 and totalPages = 2
TotalsBeyondLastPage ==
  /\ SearchAnswered
  /\ ScopeKey(ev.ret.arg.options) = AllKey
  /\ RequestedPage(ev.ret.arg.options) = 3 /\ RequestedPageSize(ev.ret.arg.options) = 1
  /\ ev.ret.out.val.items = <<>>
  /\ ev.ret.out.val.total = 2 /\ ev.ret.out.val.totalPages = 2

\* the matches of the scope list, in the order of the list
MatchList(list, query) == SelectSeq(list, LAMBDA e : ContainsNoCase(e.t, query))

\* C14: for a non-empty query, items is the run of matches at the positions
\* (page-1)*pageSize .. page*pageSize - 1 of the match list in the original entry order:
\* min(pageSize, total - pageSize*(page-1)) items when 1 <= page <= totalPages, and no
\* item for every page outside that range.
SearchPageIsContiguousRun ==
  SearchAnswered =>
    LET matches == MatchList(WholeScopeList(ev.ret.arg.options), ev.ret.arg.query)
        total == Len(matches)
        page == RequestedPage(ev.ret.arg.options)
        pageSize == RequestedPageSize(ev.ret.arg.options)
        items == ev.ret.out.val.items
    IN IF 1 <= page /\ (page - 1) * pageSize < total
       THEN /\ Len(items) = Min(pageSize, total - pageSize * (page - 1))
            /\ \A i \in 1..Len(items) :
                 /\ items[i].id = matches[(page - 1) * pageSize + i].id
                 /\ items[i].title = matches[(page - 1) * pageSize + i].t
       ELSE Len(items) = 0

\* C15: getVideo never fails: it returns the Video Detail of the per-video file when the
\* load succeeds and null when the load fails, for every id.
GetVideoNeverFails ==
  (ev.ret # None /\ ev.ret.op = "getVideo")
    => /\ ev.ret.out.ok
       /\ ev.ret.ncall = 1
       /\ IF ev.ret.got.ok
          THEN ev.ret.out.val = FS["/video/" \o ev.ret.arg.id \o ".json"]
          ELSE ev.ret.out.val = JNull

\* C15 witness: getVideo returned null for the id of a missing file
GetVideoReturnedNull ==
  /\ ev.ret # None /\ ev.ret.op = "getVideo" /\ ev.ret.parent = 0
  /\ ev.ret.arg.id = "v9"
  /\ ~ev.ret.got.ok
  /\ ev.ret.out = Ok(JNull)

\* C16: when the requested Video Detail cannot be loaded, loadVideoPage returns null in
\* the step that follows the failed load, having made that one load only, and starts no
\* neighbour call and no fetch.
MissingVideoYieldsNotFound ==
  [][\A t \in Tasks :
       (/\ tasks[t].op = "loadVideoPage" /\ tasks[t].pc = "resume" /\ ~tasks[t].got.ok
        /\ tasks'[t].pc # "resume")
         => /\ tasks'[t].op = "idle"
            /\ ev'.ret # None /\ ev'.ret.op = "loadVideoPage"
            /\ ev'.ret.out = Ok(JNull)
            /\ ev'.ret.ncall = 1
            /\ \A u \in Tasks \ {t} : tasks'[u].op = tasks[u].op /\ tasks'[u].pc = tasks[u].pc]_vars

\* C16 witness: loadVideoPage of a missing video returned null and nothing is running
NotFoundReturned ==
  /\ ev.ret # None /\ ev.ret.op = "loadVideoPage"
  /\ ev.ret.arg.id = "v9"
  /\ ev.ret.out = Ok(JNull)
  /\ ~ev.ret.got.ok
  /\ \A u \in Tasks : tasks[u].op = "idle"

\* a neighbour call of loadVideoPage call t for the given side is in flight
NeighbourCall(t, side) == \E u \in Tasks : tasks[u].parent = t /\ tasks[u].role = side

\* C17: for a video whose navigation block has prev = null, loadVideoPage never has a
\* call for the previous neighbour and returns prevVideo = null; the same for next = null
\* and nextVideo.
NullNeighbourNotLoaded ==
  /\ \A t \in Tasks :
       (tasks[t].op = "loadVideoPage" /\ tasks[t].pc = "join")
         => /\ tasks[t].loc.nav.prev = NULL
                 => (tasks[t].kids.prev = Ok(JNull) /\ ~NeighbourCall(t, "prev"))
            /\ tasks[t].loc.nav.next = NULL
                 => (tasks[t].kids.next = Ok(JNull) /\ ~NeighbourCall(t, "next"))
  /\ (ev.ret # None /\ ev.ret.op = "loadVideoPage" /\ ev.ret.out.val # JNull)
       => /\ ev.ret.ncall = 1
          /\ ev.ret.out.val.video.nav.prev = NULL => ev.ret.out.val.prevVideo = JNull
          /\ ev.ret.out.val.video.nav.next = NULL => ev.ret.out.val.nextVideo = JNull

\* C17 witness: the page of v2, which has no next video, came back with nextVideo = null
\* and the summary of v1 as prevVideo
LastVideoPageReturned ==
  /\ ev.ret # None /\ ev.ret.op = "loadVideoPage" /\ ev.ret.out.val # JNull
  /\ ev.ret.out.val.video.nav.next = NULL
  /\ ev.ret.out.val.nextVideo = JNull
  /\ ev.ret.out.val.prevVideo # JNull
  /\ ev.ret.out.val.prevVideo.id = "v1"

\* the Video Summary of a detail (the fields of Video the files carry)
SummaryOf(v) ==
  [id |-> v.id, title |-> v.title, duration |-> v.duration, viewCount |-> v.viewCount,
   playlistId |-> v.playlistId, playlistName |-> v.playlistName]

OtherSide(side) == IF side = "prev" THEN "next" ELSE "prev"

\* C18: in loadVideoPage, when the load of a neighbour settles, the result of that side
\* is the summary of the neighbour's file if the load succeeded and null if it failed,
\* and the result of the other side is left as it is; the loader then succeeds with the
\* two results, whatever the outcomes and the order in which the two loads settled.
NeighbourBranchesIsolated ==
  [][/\ \A u \in Tasks :
          (tasks[u].op = "getVideo" /\ tasks[u].parent # 0 /\ tasks[u].pc = "resume"
             /\ tasks'[u].pc # "resume")
            => LET p == tasks[u].parent
                   side == tasks[u].role
               IN /\ tasks'[p].pc = "join"
                  /\ tasks'[p].kids[side] =
                       (IF tasks[u].got.ok
                        THEN Ok(SummaryOf(FS["/video/" \o tasks[u].arg.id \o ".json"]))
                        ELSE Ok(JNull))
                  /\ tasks'[p].kids[OtherSide(side)] = tasks[p].kids[OtherSide(side)]
     /\ \A t \in Tasks :
          (tasks[t].op = "loadVideoPage" /\ tasks[t].pc = "join" /\ tasks'[t].pc # "join")
            => /\ ev'.ret # None /\ ev'.ret.op = "loadVideoPage" /\ ev'.ret.out.ok
               /\ ev'.ret.out.val.video = tasks[t].loc
               /\ ev'.ret.out.val.prevVideo = tasks[t].kids.prev.val
               /\ ev'.ret.out.val.nextVideo = tasks[t].kids.next.val]_vars

\* C18 witness: the page of v3 came back with prevVideo = null, the load of the missing
\* v9 having failed, and the summary of v1 as nextVideo
OneNeighbourFailed ==
  /\ ev.ret # None /\ ev.ret.op = "loadVideoPage" /\ ev.ret.out.val # JNull
  /\ ev.ret.arg.id = "v3"
  /\ ev.ret.out.val.video.nav.prev = "v9"
  /\ ev.ret.out.val.prevVideo = JNull
  /\ ev.ret.out.val.nextVideo = SummaryOf(FS["/video/v1.json"])

\* C19: when the load of a path that is not in the bounded cache succeeds while the cache
\* holds exactly MAX_CACHE_SIZE entries, the earliest-inserted entry is removed and no
\* other, the entries kept stay in their order, and the new path with the loaded value
\* becomes the most recently inserted entry.
EvictsEarliestInserted ==
  [][\A t \in Tasks :
       (/\ tasks[t].pc = "fetching" /\ tasks'[t].pc = "resume" /\ tasks'[t].got.ok
        /\ tasks[t].path \notin CacheKeys(cache)
        /\ Len(cache) = MAX_CACHE_SIZE)
         => /\ Len(cache') = MAX_CACHE_SIZE
            /\ cache[1].key \notin CacheKeys(cache')
            /\ \A i \in 1..(MAX_CACHE_SIZE - 1) : cache'[i] = cache[i + 1]
            /\ cache'[MAX_CACHE_SIZE].key = tasks[t].path
            /\ cache'[MAX_CACHE_SIZE].value = tasks'[t].got.val]_vars

\* C19 witness: /index.json was loaded and has been evicted; the listing inserted after
\* it is now the oldest entry and the detail of v2 the newest
OldestEntryEvicted ==
  /\ hist.indexFetches >= 1 /\ ~hist.indexFailed
  /\ InFlight(IndexPath) = {}
  /\ Len(cache) = MAX_CACHE_SIZE
  /\ cache[1].key = VideosPath("date", 1)
  /\ cache[Len(cache)].key = VideoPath("v2")

\* call t has been served its one load from the bounded cache and has not gone on yet
ServedFromCache(t) ==
  /\ tasks[t].pc = "resume" /\ tasks[t].ncall = 1 /\ tasks[t].nfetch = 0
  /\ tasks[t].got.ok

NoDuplicateFetchInFlight ==
  \A t, u \in Tasks :
    (t # u /\ tasks[t].pc = "fetching" /\ tasks[u].pc = "fetching")
      => tasks[t].path # tasks[u].path

RECURSIVE ChunkEntriesUpTo(_)
\* the entries of the chunks 1..n, chunk after chunk
ChunkEntriesUpTo(n) ==
  IF n <= 0 THEN <<>>
  ELSE ChunkEntriesUpTo(n - 1) \o FS["/search/chunk-" \o ToString(n) \o ".json"].entries

DeclaredChunks == FS["/search/manifest.json"].totalChunks

\* C22: a global-scope load calls the load of the manifest first; its i-th chunk load is
\* its (i+1)-th load, is for chunk i with 1 <= i <= totalChunks, and is made when the
\* chunks 1..i-1 have been obtained and concatenated in that order; the list it records
\* for the global scope, after totalChunks + 1 loads, is the concatenation of the chunks
\* 1..totalChunks.
ChunksLoadedInOrder ==
  [][/\ \A t \in Tasks :
          tasks'[t].op = "search" =>
            /\ tasks'[t].loc.stage = "manifest"
                 => (tasks'[t].ncall = 1 /\ tasks'[t].path = "/search/manifest.json")
            /\ tasks'[t].loc.stage = "chunk"
                 => LET i == tasks'[t].loc.i
                    IN /\ 1 <= i /\ i <= DeclaredChunks
                       /\ tasks'[t].ncall = i + 1
                       /\ tasks'[t].path = "/search/chunk-" \o ToString(i) \o ".json"
                       /\ tasks'[t].loc.entries = ChunkEntriesUpTo(i - 1)
                       /\ (tasks[t].op = "search" /\ tasks[t].ncall = i)
                            => (tasks[t].pc = "resume" /\ tasks[t].got.ok)
     /\ (AllKey \notin DOMAIN searchCache /\ AllKey \in DOMAIN searchCache')
          => /\ searchCache'[AllKey] = ChunkEntriesUpTo(DeclaredChunks)
             /\ ev'.ret # None /\ ev'.ret.op = "search"
             /\ ev'.ret.ncall = DeclaredChunks + 1]_vars

\* C22 witness: a global search is fetching chunk 2, holding the entries of chunk 1
SecondChunkRequested ==
  \E t \in Tasks :
    /\ tasks[t].op = "search" /\ tasks[t].pc = "fetching"
    /\ tasks[t].loc.stage = "chunk" /\ tasks[t].loc.i = 2
    /\ tasks[t].loc.entries = FS["/search/chunk-1.json"].entries

\* C23: a composite loader (loadStudyHome, the neighbour resolution of loadVideoPage) has
\* started every sub-load it needs when it suspends at its join, and it completes, by
\* returning or by failing, only when every one of its sub-loads has settled.
CompositeJoinsAllSettled ==
  [][\A t \in Tasks :
       /\ (tasks[t].pc # "join" /\ tasks'[t].pc = "join")
            => \A r \in DOMAIN tasks'[t].kids :
                 \/ Settled(tasks'[t].kids[r])
                 \/ \E u \in Tasks : tasks'[u].parent = t /\ tasks'[u].role = r
       /\ (tasks[t].pc = "join" /\ tasks'[t].pc # "join")
            => /\ \A r \in DOMAIN tasks[t].kids : Settled(tasks[t].kids[r])
               /\ ~\E u \in Tasks : tasks[u].parent = t]_vars

\* the complete entry list of the scope with the given key
CompleteScopeList(key) ==
  IF key = AllKey THEN ChunkEntriesUpTo(DeclaredChunks) ELSE FS[key].elems

\* C24: under overlapping searches and failing loads, a key of the search-scope cache
\* maps to the complete entry list of its scope, before and after every step, and a key
\* that is present stays present with an equal list.
ScopeListsCompleteAndStable ==
  [][/\ \A key \in DOMAIN searchCache' : searchCache'[key] = CompleteScopeList(key)
     /\ \A key \in DOMAIN searchCache :
          /\ key \in DOMAIN searchCache'
          /\ searchCache'[key] = searchCache[key]]_vars

\* C24 witness: both scopes are loaded, and an overlapping global search is still
\* fetching chunk 2 for a list of its own
ScopesLoadedWhileReloading ==
  /\ DOMAIN searchCache = {AllKey, SearchPlaylistPath("PL1")}
  /\ \E t \in Tasks :
       /\ tasks[t].op = "search" /\ tasks[t].loc.stage = "chunk" /\ tasks[t].loc.i = 2
       /\ tasks[t].pc = "fetching"

\* the load of call t completes successfully in this step
LoadCompletes(t) ==
  tasks[t].pc = "fetching" /\ tasks'[t].pc = "resume" /\ tasks'[t].got.ok

\* C25 as stated: when a load of P completes while the cache holds MAX_CACHE_SIZE
\* entries including P, the oldest entry is removed and no key is added, which leaves
\* MAX_CACHE_SIZE - 1 entries, P among them.
ReinsertLeavesOneLess ==
  [][\A t \in Tasks :
       (LoadCompletes(t) /\ Len(cache) = MAX_CACHE_SIZE /\ tasks[t].path \in CacheKeys(cache))
         => /\ cache[1].key \notin CacheKeys(cache')
            /\ CacheKeys(cache') \subseteq CacheKeys(cache)
            /\ Len(cache') = MAX_CACHE_SIZE - 1
            /\ tasks[t].path \in CacheKeys(cache')]_vars

\* C25 amended: when a load of P completes while the cache holds MAX_CACHE_SIZE entries
\* including P, the oldest entry is removed; if the oldest entry is another path, no key
\* is added and MAX_CACHE_SIZE - 1 entries are left, in their order; if the oldest entry
\* is P itself, P is removed and inserted again as the newest entry, and MAX_CACHE_SIZE
\* entries are left. In all cases P is in the cache right after a successful load of P.
ReinsertEvictsOldest ==
  [][\A t \in Tasks :
       LoadCompletes(t) =>
         /\ tasks[t].path \in CacheKeys(cache')
         /\ (Len(cache) = MAX_CACHE_SIZE /\ tasks[t].path \in CacheKeys(cache))
              => IF cache[1].key # tasks[t].path
                 THEN /\ Len(cache') = MAX_CACHE_SIZE - 1
                      /\ CacheKeys(cache') = CacheKeys(cache) \ {cache[1].key}
                      /\ \A i \in 1..(MAX_CACHE_SIZE - 1) : cache'[i].key = cache[i + 1].key
                 ELSE /\ Len(cache') = MAX_CACHE_SIZE
                      /\ CacheKeys(cache') = CacheKeys(cache)
                      /\ \A i \in 1..(MAX_CACHE_SIZE - 1) : cache'[i] = cache[i + 1]
                      /\ cache'[MAX_CACHE_SIZE].key = tasks[t].path]_vars

\* C25 witness: /index.json was loaded and has been evicted although no new key came in:
\* the second of two overlapping loads of the listing completed on the full cache, which
\* now holds one entry less
ReinsertShrankCache ==
  /\ indexCache # JNull
  /\ ~CacheHas(cache, IndexPath)
  /\ CacheHas(cache, VideosPath("date", 1))
  /\ Len(cache) = MAX_CACHE_SIZE - 1

\* the neighbour calls of loadVideoPage call t
NeighbourCalls(t) == {u \in Tasks : tasks[u].parent = t}

RequestedDetail(id) == FS["/video/" \o id \o ".json"]

\* C26: a loadVideoPage call has no neighbour call before the requested detail has been
\* obtained; afterwards it has at most one call for each side, each a getVideo call for
\* the id the requested detail names for that side, making one load and no call of its
\* own, so the call makes at most three video-detail loads; when no neighbour call is
\* left both sides are settled, so the call can return; and playlistVideoCount and
\* currentIndex of the result are nav.total and nav.index of the requested detail.
VideoPageOneLevelDeep ==
  /\ \A t \in Tasks :
       tasks[t].op = "loadVideoPage" =>
         /\ tasks[t].ncall = 1
         /\ tasks[t].path = "/video/" \o tasks[t].arg.id \o ".json"
         /\ tasks[t].pc \in {"fetching", "resume"} => NeighbourCalls(t) = {}
         /\ tasks[t].pc = "join" =>
              /\ tasks[t].loc = RequestedDetail(tasks[t].arg.id)
              /\ \A u \in NeighbourCalls(t) :
                   /\ tasks[u].op = "getVideo" /\ tasks[u].role \in {"prev", "next"}
                   /\ tasks[u].arg.id = tasks[t].loc.nav[tasks[u].role]
                   /\ tasks[u].ncall = 1
                   /\ NeighbourCalls(u) = {}
                   /\ \A w \in NeighbourCalls(t) : tasks[w].role = tasks[u].role => w = u
              /\ NeighbourCalls(t) = {}
                   => (Settled(tasks[t].kids.prev) /\ Settled(tasks[t].kids.next))
  /\ (ev.ret # None /\ ev.ret.op = "loadVideoPage" /\ ev.ret.out.val # JNull)
       => /\ ev.ret.out.val.playlistVideoCount = RequestedDetail(ev.ret.arg.id).nav.total
          /\ ev.ret.out.val.currentIndex = RequestedDetail(ev.ret.arg.id).nav.index

\* C26 witness: the page of v3 came back with the summary of its next video v1, and the
\* detail of v2, the next video of v1, is not in the cache
NeighbourOfNeighbourNotLoaded ==
  /\ ev.ret # None /\ ev.ret.op = "loadVideoPage" /\ ev.ret.out.val # JNull
  /\ ev.ret.arg.id = "v3"
  /\ ev.ret.out.val.nextVideo # JNull
  /\ ev.ret.out.val.nextVideo.id = "v1"
  /\ RequestedDetail("v1").nav.next = "v2"
  /\ ~CacheHas(cache, VideoPath("v2"))
  /\ ev.ret.out.val.playlistVideoCount = 1 /\ ev.ret.out.val.currentIndex = 0

====
